---- MODULE Spec2Model ----
(***************************************************************************)
(* TaskNest-Server: the Task document (models/taskModel.js), its pre-save  *)
(* and pre-findOneAndUpdate hooks, the addTimeLog method, the isOverdue    *)
(* virtual, the task controller (controllers/authController.js, second     *)
(* half) and the task routes (routes/taskRoutes.js).                       *)
(*                                                                         *)
(* A Date is a positive integer; NoDate stands for an undefined Date path. *)
(* Fields of the schema that no hook, method or handler modelled here      *)
(* reads (description, priority, tags, subtasks, ...) are left out.        *)
(***************************************************************************)
EXTENDS Integers, Sequences, FiniteSets, TLC

\* ---------------------------------------------------------------- bounds
MaxTime == 3        \* the clock runs over 1..MaxTime
MaxLogs == 2        \* addTimeLog is called at most MaxLogs times per task

\* ------------------------------------------------------------- constants
NoDate == 0         \* an unset Date path (undefined)
MsPerSecond == 1000 \* taskModel.js:219, "/ 1000"

STATUS == {"backlog", "todo", "in_progress", "blocked", "done", "canceled", "archived"}

Absent == "absent"  \* a key the request body does not carry (undefined)
NoUser == "nouser"  \* no owner value
Users == {"u1", "u2"}
TaskIds == {"t1"}
NoSuchId == "t9"    \* a well-formed id that no document has
Titles == {"a"}
DueDates == {2}
ClientDates == {1}  \* Date values a request body may carry
LogStarts == {1000}
LogEnds == {500, 126500}
LogSeconds == {-5, 90}

VARIABLES tasks, now, response, strictQuery

vars == <<tasks, now, response, strictQuery>>

Max(a, b) == IF a >= b THEN a ELSE b

\* new Task({...}) with the schema defaults
NewDoc(owner, title, status, dueDate) ==
  [owner |-> owner, title |-> title, status |-> status, dueDate |-> dueDate,
   completedAt |-> NoDate, isArchived |-> FALSE, archivedAt |-> NoDate,
   timeLogs |-> <<>>, totalTimeSeconds |-> 0]

\* document validation run by save()/create(): required owner, required
\* non-empty title, status in the enum
ValidDoc(doc) ==
  /\ doc.owner # NoUser
  /\ doc.title \notin {Absent, ""}
  /\ doc.status \in STATUS

\* ------------------------------------------------------------ pre('save')
PreSaveUnarchive(doc, t) ==
  LET d1 == IF doc.status = "archived"
            THEN [doc EXCEPT !.isArchived = TRUE,
                             !.archivedAt = IF @ = NoDate THEN t ELSE @]
            ELSE [doc EXCEPT !.isArchived = FALSE, !.archivedAt = NoDate]
      d2 == IF d1.status = "done" /\ d1.completedAt = NoDate
            THEN [d1 EXCEPT !.completedAt = t] ELSE d1
  IN IF d2.status # "done" THEN [d2 EXCEPT !.completedAt = NoDate] ELSE d2

PreSave(doc, t) ==
  LET d1 == IF doc.status = "archived"
            THEN [doc EXCEPT !.isArchived = TRUE,
                             !.archivedAt = IF @ = NoDate THEN t ELSE @]
            ELSE doc
      d2 == IF d1.status = "done" /\ d1.completedAt = NoDate
            THEN [d1 EXCEPT !.completedAt = t] ELSE d1
  IN IF d2.status # "done" THEN [d2 EXCEPT !.completedAt = NoDate] ELSE d2

\* ------------------------------------------------ pre('findOneAndUpdate')
\* An update document: the top-level keys of the body (title, status,
\* completedAt; Absent/NoDate when the key is missing) and what the hook
\* puts under $set and $unset.
AsUpdate(body) ==
  [title |-> body.title, status |-> body.status, completedAt |-> body.completedAt,
   setIsArchived |-> FALSE, setArchivedAt |-> NoDate,
   setCompletedAt |-> NoDate, unsetCompletedAt |-> FALSE]

PreFindOneAndUpdate(update, t) ==
  LET u1 == IF update.status = "archived"
            THEN [update EXCEPT !.setIsArchived = TRUE, !.setArchivedAt = t]
            ELSE update
      newStatus == u1.status
  IN IF newStatus = "done"
       THEN [u1 EXCEPT !.setCompletedAt = t]
       ELSE IF newStatus \notin {Absent, ""}
              THEN [u1 EXCEPT !.unsetCompletedAt = TRUE]
              ELSE u1

\* runValidators: true -- the validators of the paths the update sets
ValidUpdate(update) ==
  /\ update.title # ""
  /\ update.status \in STATUS \cup {Absent}

\* the store refuses an update that sets and unsets the same path
ConflictingUpdate(update) ==
  /\ update.unsetCompletedAt
  /\ (update.completedAt # NoDate \/ update.setCompletedAt # NoDate)

\* the store applies the update: top-level keys are $set (and win over the
\* same key under $set), then $unset
ApplyUpdate(doc, update) ==
  [doc EXCEPT
     !.title = IF update.title # Absent THEN update.title ELSE @,
     !.status = IF update.status # Absent THEN update.status ELSE @,
     !.isArchived = IF update.setIsArchived THEN TRUE ELSE @,
     !.archivedAt = IF update.setArchivedAt # NoDate THEN update.setArchivedAt ELSE @,
     !.completedAt = IF update.unsetCompletedAt THEN NoDate
                     ELSE IF update.completedAt # NoDate THEN update.completedAt
                     ELSE IF update.setCompletedAt # NoDate THEN update.setCompletedAt
                     ELSE @]

\* ----------------------------------------------------------------- views
isOverdueNonStrict(doc, t) ==
  doc.dueDate # NoDate /\ doc.status \notin {"done", "canceled", "archived"} /\ doc.dueDate <= t

isOverdue(doc, t) ==
  doc.dueDate # NoDate /\ doc.status \notin {"done", "canceled", "archived"} /\ doc.dueDate < t

\* ------------------------------------------------------------ addTimeLog
\* seconds is <<>> when not a number, <<n>> when the number n
TimeLogDeltaNoClamp(startedAt, endedAt, seconds) ==
  IF Len(seconds) = 1 THEN seconds[1]
  ELSE IF startedAt # NoDate /\ endedAt # NoDate
         THEN (endedAt - startedAt) \div MsPerSecond
         ELSE 0

TimeLogDelta(startedAt, endedAt, seconds) ==
  IF Len(seconds) = 1 THEN Max(0, seconds[1])
  ELSE IF startedAt # NoDate /\ endedAt # NoDate
         THEN Max(0, (endedAt - startedAt) \div MsPerSecond)
         ELSE 0

PushLogFront(logs, log) == <<log>> \o logs

PushLog(logs, log) == Append(logs, log)

addTimeLog(doc, startedAt, endedAt, seconds, user, t) ==
  LET log == [startedAt |-> IF startedAt # NoDate THEN startedAt ELSE t,
              endedAt |-> endedAt, seconds |-> seconds, user |-> user]
  IN [doc EXCEPT !.timeLogs = PushLog(@, log),
                 !.totalTimeSeconds = @ + TimeLogDelta(startedAt, endedAt, seconds)]

complete(doc, t) == [doc EXCEPT !.status = "done", !.completedAt = t]

Resp(op, code) == [op |-> op, code |-> code, flag |-> FALSE]

Bodies ==
  [title : Titles \cup {Absent, ""},
   status : STATUS \cup {Absent, "bogus"},
   completedAt : ClientDates \cup {NoDate}]

\* --------------------------------------------------------------- actions
\* controller createTask
CreateTask(user, title, status, dueDate) ==
  /\ \E id \in TaskIds \ DOMAIN tasks :
       LET doc == NewDoc(user, title, IF status \in {Absent, ""} THEN "todo" ELSE status, dueDate)
       IN IF ValidDoc(doc)
            THEN /\ tasks' = [i \in DOMAIN tasks \cup {id} |->
                                IF i = id THEN PreSave(doc, now) ELSE tasks[i]]
                 /\ response' = Resp("createTask", 201)
            ELSE /\ tasks' = tasks
                 /\ response' = Resp("createTask", 500)
  /\ UNCHANGED <<now, strictQuery>>

\* controller updateTask
UpdateTask(user, id, body) ==
  LET updateData == IF body.status = "done" THEN [body EXCEPT !.completedAt = now] ELSE body
      update == PreFindOneAndUpdate(AsUpdate(updateData), now)
  IN /\ IF ~ValidUpdate(update) \/ ConflictingUpdate(update)
          THEN tasks' = tasks /\ response' = Resp("updateTask", 500)
          ELSE IF id \notin DOMAIN tasks
                 THEN tasks' = tasks /\ response' = Resp("updateTask", 404)
                 ELSE /\ tasks' = [tasks EXCEPT ![id] = ApplyUpdate(@, update)]
                      /\ response' = Resp("updateTask", 200)
     /\ UNCHANGED <<now, strictQuery>>

\* controller deleteTask
DeleteTask(user, id) ==
  /\ IF id \notin DOMAIN tasks
       THEN tasks' = tasks /\ response' = Resp("deleteTask", 404)
       ELSE /\ tasks' = [i \in DOMAIN tasks \ {id} |-> tasks[i]]
            /\ response' = Resp("deleteTask", 200)
  /\ UNCHANGED <<now, strictQuery>>

\* router.post('/'): new Task({ title, user }) -- `user` is no path of the
\* schema, so the document has no owner
RoutePost(user, title) ==
  /\ \E id \in TaskIds \ DOMAIN tasks :
       LET doc == NewDoc(NoUser, title, "todo", NoDate)
       IN IF ValidDoc(doc)
            THEN /\ tasks' = [i \in DOMAIN tasks \cup {id} |->
                                IF i = id THEN PreSave(doc, now) ELSE tasks[i]]
                 /\ response' = Resp("routePost", 201)
            ELSE /\ tasks' = tasks
                 /\ response' = Resp("routePost", 500)
  /\ UNCHANGED <<now, strictQuery>>

\* the filter { _id, user }: `user` is no path of the schema; a strict
\* query drops the key, a non-strict query keeps it and matches no document
RouteFind(id) == id \in DOMAIN tasks /\ strictQuery

\* router.put('/:id')
RoutePut(user, id, title) ==
  /\ IF ~RouteFind(id)
       THEN tasks' = tasks /\ response' = Resp("routePut", 404)
       ELSE LET doc == [tasks[id] EXCEPT !.title = IF title \in {Absent, ""} THEN @ ELSE title]
            IN IF ValidDoc(doc)
                 THEN /\ tasks' = [tasks EXCEPT ![id] = PreSave(doc, now)]
                      /\ response' = Resp("routePut", 200)
                 ELSE tasks' = tasks /\ response' = Resp("routePut", 500)
  /\ UNCHANGED <<now, strictQuery>>

\* router.delete('/:id')
RouteDelete(user, id) ==
  /\ IF ~RouteFind(id)
       THEN tasks' = tasks /\ response' = Resp("routeDelete", 404)
       ELSE /\ tasks' = [i \in DOMAIN tasks \ {id} |-> tasks[i]]
            /\ response' = Resp("routeDelete", 200)
  /\ UNCHANGED <<now, strictQuery>>

\* a full save of a loaded document whose status was assigned s
SaveStatus(id, s) ==
  /\ id \in DOMAIN tasks
  /\ tasks' = [tasks EXCEPT ![id] = PreSave([@ EXCEPT !.status = s], now)]
  /\ response' = Resp("save", 0)
  /\ UNCHANGED <<now, strictQuery>>

\* task.complete() followed by a full save
Complete(id) ==
  /\ id \in DOMAIN tasks
  /\ tasks' = [tasks EXCEPT ![id] = PreSave(complete(@, now), now)]
  /\ response' = Resp("complete", 0)
  /\ UNCHANGED <<now, strictQuery>>

\* reading the isOverdue virtual
ReadIsOverdue(id) ==
  /\ id \in DOMAIN tasks
  /\ response' = [op |-> "isOverdue", code |-> 0, flag |-> isOverdue(tasks[id], now)]
  /\ UNCHANGED <<tasks, now, strictQuery>>

\* task.addTimeLog({ startedAt, endedAt, seconds, user })
AddTimeLog(id, startedAt, endedAt, seconds, user) ==
  /\ id \in DOMAIN tasks
  /\ Len(tasks[id].timeLogs) < MaxLogs
  /\ tasks' = [tasks EXCEPT ![id] = addTimeLog(@, startedAt, endedAt, seconds, user, now)]
  /\ response' = Resp("addTimeLog", 0)
  /\ UNCHANGED <<now, strictQuery>>

Tick ==
  /\ now < MaxTime
  /\ now' = now + 1
  /\ UNCHANGED <<tasks, response, strictQuery>>

\* ---------------------------------------------------------- specifications
Init ==
  /\ tasks = << >>
  /\ now = 1
  /\ response = Resp("none", 0)
  /\ strictQuery \in BOOLEAN

Next ==
  \/ \E u \in Users \cup {NoUser}, t \in Titles \cup {Absent, ""},
        s \in STATUS \cup {Absent, "bogus"}, d \in DueDates \cup {NoDate} :
       CreateTask(u, t, s, d)
  \/ \E u \in Users, id \in TaskIds \cup {NoSuchId}, b \in Bodies : UpdateTask(u, id, b)
  \/ \E u \in Users, id \in TaskIds \cup {NoSuchId} : DeleteTask(u, id)
  \/ \E u \in Users, t \in Titles \cup {Absent, ""} : RoutePost(u, t)
  \/ \E u \in Users, id \in TaskIds \cup {NoSuchId}, t \in Titles \cup {Absent, ""} :
       RoutePut(u, id, t)
  \/ \E u \in Users, id \in TaskIds \cup {NoSuchId} : RouteDelete(u, id)
  \/ \E id \in TaskIds, s \in STATUS : SaveStatus(id, s)
  \/ \E id \in TaskIds : Complete(id)
  \/ \E id \in TaskIds : ReadIsOverdue(id)
  \/ Tick

Spec == Init /\ [][Next]_vars

\* the addTimeLog method on a freshly created document
InitTime ==
  /\ tasks = [i \in TaskIds |-> NewDoc("u1", "a", "todo", NoDate)]
  /\ now = 1
  /\ response = Resp("none", 0)
  /\ strictQuery \in BOOLEAN

NextTime ==
  \/ \E id \in TaskIds, st \in LogStarts \cup {NoDate}, en \in LogEnds \cup {NoDate},
        sec \in {<<>>} \cup {<<n>> : n \in LogSeconds}, u \in {"u1"} :
       AddTimeLog(id, st, en, sec, u)
  \/ Tick

SpecTime == InitTime /\ [][NextTime]_vars

\* ------------------------------------------------------------ properties
\* the four fields the derivation rules keep consistent
Derived(doc) ==
  [status |-> doc.status, completedAt |-> doc.completedAt,
   isArchived |-> doc.isArchived, archivedAt |-> doc.archivedAt]

\* a target status applied through the full-save path
FullSave(doc, s, t) == PreSave([doc EXCEPT !.status = s], t)

\* a target status applied through the partial-update path
PartialUpdate(doc, s, t) ==
  ApplyUpdate(doc, PreFindOneAndUpdate(
    AsUpdate([title |-> Absent, status |-> s, completedAt |-> NoDate]), t))

\* C1: every persisted task has completedAt present if and only if its
\* status is done, after any sequence of creations, full saves and partial
\* updates.
C1_CompletedIffDone ==
  \A id \in DOMAIN tasks : (tasks[id].completedAt # NoDate) <=> (tasks[id].status = "done")

\* C2: applying target status archived through a full save or a partial
\* update leaves isArchived true; archivedAt keeps its value when it was
\* set before and becomes the current time only when it was unset.
C2_ArchiveIdempotent ==
  [][\A id \in DOMAIN tasks :
       (\/ SaveStatus(id, "archived")
        \/ \E u \in Users, b \in Bodies :
             b.status = "archived" /\ UpdateTask(u, id, b) /\ response'.code = 200)
       => /\ tasks'[id].isArchived
          /\ tasks'[id].archivedAt =
               IF tasks[id].archivedAt # NoDate THEN tasks[id].archivedAt ELSE now]_vars

\* C3: applying target status done to a task that is done with completedAt
\* set (full save, or partial update through the updateTask controller)
\* leaves completedAt at its earlier value.
C3_DoneTwiceKeepsCompletedAt ==
  [][\A id \in DOMAIN tasks :
       (/\ tasks[id].status = "done"
        /\ tasks[id].completedAt # NoDate
        /\ \/ SaveStatus(id, "done")
           \/ \E u \in Users, b \in Bodies :
                b.status = "done" /\ UpdateTask(u, id, b) /\ response'.code = 200)
       => tasks'[id].completedAt = tasks[id].completedAt]_vars

\* C4: from every task state, for every target status and current time,
\* the full-save path and the partial-update path give the same status,
\* completedAt, isArchived and archivedAt.
C4_PathsEquivalent ==
  \A id \in DOMAIN tasks : \A s \in STATUS :
    Derived(FullSave(tasks[id], s, now)) = Derived(PartialUpdate(tasks[id], s, now))

\* the increase the time aggregator's contract prescribes: seconds clamped
\* at 0 when it is a number; else, when the caller gave both startedAt and
\* endedAt, the whole seconds between them clamped at 0; else 0
ContractIncrease(startedAt, endedAt, seconds) ==
  IF seconds # <<>>
    THEN (IF seconds[1] < 0 THEN 0 ELSE seconds[1])
    ELSE IF startedAt = NoDate \/ endedAt = NoDate THEN 0
    ELSE IF endedAt < startedAt THEN 0
    ELSE CHOOSE d \in 0..(endedAt - startedAt) :
           d * MsPerSecond <= endedAt - startedAt /\ endedAt - startedAt < (d + 1) * MsPerSecond

\* C5: every addTimeLog call increases totalTimeSeconds by exactly the
\* contract's increase (startedAt and endedAt count as present when the
\* caller gave them) and appends exactly one entry to timeLogs.
C5_AddTimeLogIncrease ==
  [][\A id \in DOMAIN tasks, st \in LogStarts \cup {NoDate}, en \in LogEnds \cup {NoDate},
        sec \in {<<>>} \cup {<<n>> : n \in LogSeconds}, u \in Users :
       AddTimeLog(id, st, en, sec, u)
       => /\ tasks'[id].totalTimeSeconds =
               tasks[id].totalTimeSeconds + ContractIncrease(st, en, sec)
          /\ Len(tasks'[id].timeLogs) = Len(tasks[id].timeLogs) + 1]_vars

C5_Witness ==
  \E id \in DOMAIN tasks :
    /\ Len(tasks[id].timeLogs) = 2
    /\ tasks[id].timeLogs[1].seconds = <<-5>>
    /\ tasks[id].timeLogs[2].seconds = <<>>
    /\ tasks[id].timeLogs[2].startedAt = 1000
    /\ tasks[id].timeLogs[2].endedAt = 126500
    /\ tasks[id].totalTimeSeconds = 125

\* a request names a task that does not exist or that another user owns
NotOwn(u, id) == id \notin DOMAIN tasks \/ tasks[id].owner # u

\* C6: an update or delete request naming a task that does not exist, or
\* a task the requesting user does not own, answers not-found (404) and
\* leaves every stored task unchanged.
C6_NotFoundNoChange ==
  [][\A u \in Users, id \in TaskIds \cup {NoSuchId} :
       (/\ NotOwn(u, id)
        /\ \/ DeleteTask(u, id)
           \/ RouteDelete(u, id)
           \/ \E t \in Titles \cup {Absent} : RoutePut(u, id, t)
           \/ \E b \in Bodies :
                /\ b.title # "" /\ b.status # "bogus" /\ b.completedAt = NoDate
                /\ UpdateTask(u, id, b))
       => response'.code = 404 /\ tasks' = tasks]_vars

\* C7: a create or update request with an invalid payload (missing or
\* empty title, missing owner, status outside the enum) persists nothing
\* and answers with a client-error status (4xx), not a server-error one.
C7_InvalidRejectedClientError ==
  [][(\/ \E u \in Users \cup {NoUser}, t \in Titles \cup {Absent, ""},
            s \in STATUS \cup {Absent, "bogus"}, d \in DueDates \cup {NoDate} :
          /\ (u = NoUser \/ t \in {Absent, ""} \/ s = "bogus")
          /\ CreateTask(u, t, s, d)
      \/ \E u \in Users, id \in TaskIds \cup {NoSuchId}, b \in Bodies :
          /\ (b.title = "" \/ b.status = "bogus")
          /\ UpdateTask(u, id, b))
     => tasks' = tasks /\ response'.code \in 400..499]_vars

\* C8: the isOverdue view is true if and only if dueDate is set, dueDate is
\* strictly before the current time and status is none of done, canceled,
\* archived; reading it changes no field of the task.
C8_IsOverdue ==
  [][\A id \in DOMAIN tasks :
       ReadIsOverdue(id)
       => /\ response'.flag <=>
               /\ tasks[id].dueDate # NoDate
               /\ tasks[id].dueDate < now
               /\ tasks[id].status # "done"
               /\ tasks[id].status # "canceled"
               /\ tasks[id].status # "archived"
          /\ tasks' = tasks]_vars

C8_Witness ==
  /\ response.op = "isOverdue"
  /\ response.flag
  /\ \E id \in DOMAIN tasks : tasks[id].dueDate # NoDate /\ tasks[id].dueDate < now

\* C9: across addTimeLog calls totalTimeSeconds never decreases and never
\* drops below 0, and each call keeps the recorded entries unchanged and in
\* order with the new entry last.
C9_TotalMonotoneLogsAppended ==
  [][\A id \in DOMAIN tasks :
       /\ tasks'[id].totalTimeSeconds >= tasks[id].totalTimeSeconds
       /\ tasks'[id].totalTimeSeconds >= 0
       /\ \A st \in LogStarts \cup {NoDate}, en \in LogEnds \cup {NoDate},
             sec \in {<<>>} \cup {<<n>> : n \in LogSeconds}, u \in Users :
            AddTimeLog(id, st, en, sec, u)
            => LET old == tasks[id].timeLogs
                   new == tasks'[id].timeLogs
               IN /\ Len(new) = Len(old) + 1
                  /\ \A i \in 1..Len(old) : new[i] = old[i]
                  /\ new[Len(new)].endedAt = en
                  /\ new[Len(new)].seconds = sec
                  /\ new[Len(new)].startedAt = IF st = NoDate THEN now ELSE st]_vars

C9_Witness ==
  \E id \in DOMAIN tasks :
    /\ Len(tasks[id].timeLogs) = 2
    /\ tasks[id].timeLogs[1].seconds = <<90>>
    /\ tasks[id].timeLogs[2].seconds = <<-5>>
    /\ tasks[id].totalTimeSeconds = 90

\* C10: archive state is sticky under status changes: status archived
\* always comes with isArchived true, and once isArchived is true it stays
\* true and archivedAt stays set, whatever status the task moves to.
C10_ArchiveSticky ==
  /\ [](\A id \in DOMAIN tasks : tasks[id].status = "archived" => tasks[id].isArchived)
  /\ [][\A id \in DOMAIN tasks \cap DOMAIN tasks' :
          tasks[id].isArchived
          => tasks'[id].isArchived /\ tasks'[id].archivedAt # NoDate]_vars

C10_Witness ==
  \E id \in DOMAIN tasks :
    /\ tasks[id].status \notin {"archived"}
    /\ tasks[id].isArchived
    /\ tasks[id].archivedAt # NoDate

====
